---- MODULE Spec2Model ----
(***************************************************************************)
(* A model of the poker ledger of app.py: the four tables of the store     *)
(* (players, history, pots, pot_history), the SQL statements the request   *)
(* handlers issue through execute_query, and the handlers themselves.      *)
(*                                                                         *)
(* Every execute_query call opens its own connection and commits on its    *)
(* own (app.py:53-107), so one statement is the unit of atomicity.  Each   *)
(* statement is an operator on the store d; a handler is the composition   *)
(* of its statements.  A request served alone runs its handler in one      *)
(* step (the actions named after the routes); requests served              *)
(* concurrently advance one statement at a time (the Step actions).        *)
(*                                                                         *)
(* A player name is the tuple of its characters, so that str.strip() is    *)
(* computed and not assumed.  Timestamps are left out: they are read back  *)
(* only to order listings.                                                 *)
(***************************************************************************)
EXTENDS Integers, Sequences, FiniteSets, TLC

VARIABLES
    is_postgres,  \* DATABASE_URL and HAS_POSTGRES: fixed for a deployment
    db,           \* the store: players, history, pots, pot_history, sequences
    today,        \* CURRENT_DATE / DATE('now')
    response,     \* the response to the request last served alone
    handlers      \* requests being served concurrently, one statement at a time

vars == <<is_postgres, db, today, response, handlers>>

----------------------------------------------------------------------------
(* Bounds of the model. *)

NumSeed == 1          \* how many of the sample players are left at the start
MaxPlayerId == 2      \* player ids are 1..MaxPlayerId
MaxHistId == 2        \* history ids are 1..MaxHistId
MaxPotHistId == 1     \* pot_history ids are 1..MaxPotHistId
MaxPoints == 1        \* points of one request are -MaxPoints..MaxPoints
MaxTotal == 2         \* base_total stays within -MaxTotal..MaxTotal
NumHandlers == 2      \* requests served concurrently
MaxDay == 2           \* dates are 1..MaxDay
MaxPotBuys == 3       \* pot_history ids and counters at the pot table are 1..MaxPotBuys
MaxCount == 2         \* an edited pot_count is at most MaxCount
MaxCentPoints == 12   \* points converted to dollars are -MaxCentPoints..MaxCentPoints and around 1000

----------------------------------------------------------------------------
(* Values. *)

Max(S) == CHOOSE x \in S : \A y \in S : y <= x

Abs(n) == IF n < 0 THEN -n ELSE n

Whitespace == {" ", "\t"}

RECURSIVE lstrip(_)
lstrip(s) == IF s # <<>> /\ Head(s) \in Whitespace THEN lstrip(Tail(s)) ELSE s

RECURSIVE rstrip(_)
rstrip(s) ==
    IF s # <<>> /\ s[Len(s)] \in Whitespace
    THEN rstrip(SubSeq(s, 1, Len(s) - 1))
    ELSE s

strip(s) == rstrip(lstrip(s))

sample_players ==
    << <<"C","h","a","i","t","u">>, <<"E","k","k","u">>, <<"R","a","v","i">>,
       <<"A","m","a","n","i">>, <<"H","i","n","d","u">>, <<"S","h","a","n","u">>,
       <<"J","a","y","a">>, <<"V","i","j","j","i">>, <<"K","a","n","t","h","u">>,
       <<"A","s","w","i","n","i">>, <<"P","a","v","a","n","i">> >>

(* The names a client sends: a sample name, a new name, their variants in   *)
(* case and in surrounding blanks, and the empty and the blank name.        *)
NameInputs ==
    { <<>>, <<" ">>, <<" ", "\t">>,
      <<"C","h","a","i","t","u">>, <<"c","h","a","i","t","u">>,
      <<" ","C","h","a","i","t","u"," ">>,
      <<"B","o","b">> }

PlayerIds == 1..(MaxPlayerId + 1)
HistoryIds == 1..(MaxHistId + 1)
Points == (-MaxPoints)..MaxPoints

----------------------------------------------------------------------------
(* The store after init_db, and the statements. *)

EmptyDb ==
    [players |-> << >>, history |-> {}, pots |-> {}, pot_history |-> {},
     history_seq |-> 0, pot_history_seq |-> 0]

init_db ==
    [EmptyDb EXCEPT !.players =
        [i \in 1..NumSeed |-> [name |-> sample_players[i], base_total |-> 0]]]

RECURSIVE SumPoints(_)
SumPoints(rows) ==
    IF rows = {} THEN 0
    ELSE LET r == CHOOSE x \in rows : TRUE
         IN r.points_added + SumPoints(rows \ {r})

HistoryOf(d, player_id) == {h \in d.history : h.player_id = player_id}

LedgerSum(d, player_id) == SumPoints(HistoryOf(d, player_id))

(* INTEGER PRIMARY KEY (SQLite): one more than the largest id in the table; *)
(* SERIAL (PostgreSQL): the next value of the table's sequence.             *)
NextId(ids, seq) ==
    IF is_postgres THEN seq + 1
    ELSE IF ids = {} THEN 1 ELSE Max(ids) + 1

NextPlayerId(d) == IF DOMAIN d.players = {} THEN 1 ELSE Max(DOMAIN d.players) + 1

NextHistoryId(d) == NextId({h.id : h \in d.history}, d.history_seq)

NextPotHistoryId(d) == NextId({h.id : h \in d.pot_history}, d.pot_history_seq)

(* REFERENCES players(id) is enforced by PostgreSQL; SQLite leaves foreign  *)
(* keys off unless a PRAGMA turns them on, and the program sets none.       *)
ForeignKeyRaises(d, player_id) == is_postgres /\ player_id \notin DOMAIN d.players

PlayerReferenced(d, player_id) ==
    \/ \E h \in d.history : h.player_id = player_id
    \/ \E p \in d.pots : p.player_id = player_id
    \/ \E h \in d.pot_history : h.player_id = player_id

NameTakenNever(d, name) == FALSE

NameTaken(d, name) == \E p \in DOMAIN d.players : d.players[p].name = name

InsertPlayer(d, name) ==
    LET id == NextPlayerId(d)
    IN [d EXCEPT !.players =
            [p \in DOMAIN d.players \cup {id} |->
                IF p = id THEN [name |-> name, base_total |-> 0] ELSE d.players[p]]]

UpdateBaseTotal(d, player_id, new_total) ==
    IF player_id \in DOMAIN d.players
    THEN [d EXCEPT !.players[player_id].base_total = new_total]
    ELSE d

InsertHistoryOldTotal(d, player_id, points_added, new_total) ==
    LET id == NextHistoryId(d)
    IN [d EXCEPT
          !.history = @ \cup {[id |-> id, player_id |-> player_id,
                               points_added |-> points_added,
                               total_after |-> new_total - points_added]},
          !.history_seq = IF is_postgres THEN id ELSE @]

InsertHistory(d, player_id, points_added, new_total) ==
    LET id == NextHistoryId(d)
    IN [d EXCEPT
          !.history = @ \cup {[id |-> id, player_id |-> player_id,
                               points_added |-> points_added, total_after |-> new_total]},
          !.history_seq = IF is_postgres THEN id ELSE @]

ReverseBaseTotalAdds(d, player_id, points_to_reverse) ==
    IF player_id \in DOMAIN d.players
    THEN [d EXCEPT !.players[player_id].base_total = @ + points_to_reverse]
    ELSE d

ReverseBaseTotalAllPlayers(d, player_id, points_to_reverse) ==
    [d EXCEPT !.players =
        [p \in DOMAIN @ |-> [@[p] EXCEPT !.base_total = @ - points_to_reverse]]]

ReverseBaseTotal(d, player_id, points_to_reverse) ==
    IF player_id \in DOMAIN d.players
    THEN [d EXCEPT !.players[player_id].base_total = @ - points_to_reverse]
    ELSE d

DeleteHistoryEntry(d, history_id) ==
    [d EXCEPT !.history = {h \in @ : h.id # history_id}]

DeleteHistoryOfPlayerNone(d, player_id) == d

DeleteHistoryOfPlayer(d, player_id) ==
    [d EXCEPT !.history = {h \in @ : h.player_id # player_id}]

DeletePlayerRow(d, player_id) ==
    [d EXCEPT !.players = [p \in DOMAIN @ \ {player_id} |-> @[p]]]

DeleteAllHistoryAndTotals(d) ==
    [d EXCEPT !.history = {},
              !.players = [p \in DOMAIN @ |-> [@[p] EXCEPT !.base_total = 0]]]

DeleteAllHistory(d) == [d EXCEPT !.history = {}]

UpsertPotReplace(d, player_id, date) ==
    [d EXCEPT !.pots =
        {p \in @ : ~(p.player_id = player_id /\ p.session_date = date)}
        \cup {[player_id |-> player_id, pot_count |-> 1, session_date |-> date]}]

UpsertPot(d, player_id, date) ==
    IF \E p \in d.pots : p.player_id = player_id /\ p.session_date = date
    THEN [d EXCEPT !.pots =
            {IF p.player_id = player_id /\ p.session_date = date
             THEN [p EXCEPT !.pot_count = @ + 1] ELSE p : p \in @}]
    ELSE [d EXCEPT !.pots = @ \cup
            {[player_id |-> player_id, pot_count |-> 1, session_date |-> date]}]

InsertPotHistory(d, player_id, date) ==
    LET id == NextPotHistoryId(d)
    IN [d EXCEPT
          !.pot_history = @ \cup {[id |-> id, player_id |-> player_id,
                                   pot_count |-> 1, session_date |-> date]},
          !.pot_history_seq = IF is_postgres THEN id ELSE @]

DecrementPotUnfloored(d, player_id, date) ==
    [d EXCEPT !.pots =
        {IF p.player_id = player_id /\ p.session_date = date
         THEN [p EXCEPT !.pot_count = @ - 1] ELSE p : p \in @}]

DecrementPot(d, player_id, date) ==
    [d EXCEPT !.pots =
        {IF p.player_id = player_id /\ p.session_date = date
         THEN [p EXCEPT !.pot_count = Max({@ - 1, 0})] ELSE p : p \in @}]

DeletePotsOfAllDates(d, date) == [d EXCEPT !.pots = {}]

DeletePotsOf(d, date) ==
    [d EXCEPT !.pots = {p \in @ : p.session_date # date}]

DeletePotHistoryEntry(d, history_id) ==
    [d EXCEPT !.pot_history = {h \in @ : h.id # history_id}]

UpdatePotHistoryCount(d, history_id, new_count) ==
    [d EXCEPT !.pot_history =
        {IF h.id = history_id THEN [h EXCEPT !.pot_count = new_count] ELSE h : h \in @}]

RECURSIVE SumBaseTotals(_, _)
SumBaseTotals(d, ids) ==
    IF ids = {} THEN 0
    ELSE LET p == CHOOSE x \in ids : TRUE
         IN d.players[p].base_total + SumBaseTotals(d, ids \ {p})

RECURSIVE SumPotCounts(_)
SumPotCounts(rows) ==
    IF rows = {} THEN 0
    ELSE LET r == CHOOSE x \in rows : TRUE
         IN r.pot_count + SumPotCounts(rows \ {r})

----------------------------------------------------------------------------
(* The handlers: what each route does when its request is served alone.     *)
(* A handler gives the store it leaves and the response it returns.         *)

Reply(d, code, error, value) ==
    [db |-> d, code |-> code, error |-> error, value |-> value]

Unauthorized(d) == Reply(d, 403, "Admin access required", 0)

add_player(d, admin, name_in) ==
    IF ~admin THEN Unauthorized(d)
    ELSE LET name == strip(name_in)
         IN IF name = <<>> THEN Reply(d, 400, "Player name required", 0)
            \* PostgreSQL branch: RealDictCursor is not defined, the NameError
            \* is caught by the handler's except clause.
            ELSE IF is_postgres THEN Reply(d, 400, "Player already exists", 0)
            \* name TEXT UNIQUE: the INSERT raises, caught the same way.
            ELSE IF NameTaken(d, name) THEN Reply(d, 400, "Player already exists", 0)
            ELSE Reply(InsertPlayer(d, name), 201, "", NextPlayerId(d))

add_pointsAbsentAsZero(d, admin, player_id, points_added) ==
    IF ~admin THEN Unauthorized(d)
    ELSE IF player_id \notin DOMAIN d.players
    THEN Reply(InsertHistory(d, player_id, points_added, points_added),
               201, "", points_added)
    ELSE LET new_total == d.players[player_id].base_total + points_added
             d1 == UpdateBaseTotal(d, player_id, new_total)
         IN Reply(InsertHistory(d1, player_id, points_added, new_total),
                  201, "", new_total)

add_points(d, admin, player_id, points_added) ==
    IF ~admin THEN Unauthorized(d)
    ELSE IF player_id \notin DOMAIN d.players THEN Reply(d, 404, "Player not found", 0)
    ELSE LET new_total == d.players[player_id].base_total + points_added
             d1 == UpdateBaseTotal(d, player_id, new_total)
         IN Reply(InsertHistory(d1, player_id, points_added, new_total),
                  201, "", new_total)

delete_player(d, admin, player_id) ==
    IF ~admin THEN Unauthorized(d)
    ELSE LET d1 == DeleteHistoryOfPlayer(d, player_id)
         IN IF is_postgres /\ player_id \in DOMAIN d1.players
                           /\ PlayerReferenced(d1, player_id)
            THEN Reply(d1, 500, "IntegrityError", 0)
            ELSE Reply(DeletePlayerRow(d1, player_id), 200, "", 0)

delete_history_entry(d, admin, history_id) ==
    IF ~admin THEN Unauthorized(d)
    ELSE IF ~\E h \in d.history : h.id = history_id
    THEN Reply(d, 404, "History entry not found", 0)
    ELSE LET history == CHOOSE h \in d.history : h.id = history_id
             d1 == ReverseBaseTotal(d, history.player_id, history.points_added)
         IN Reply(DeleteHistoryEntry(d1, history_id), 200, "", history.points_added)

clear_all_historyOpen(d, admin) == Reply(DeleteAllHistory(d), 200, "", 0)

clear_all_history(d, admin) ==
    IF ~admin THEN Unauthorized(d)
    ELSE Reply(DeleteAllHistory(d), 200, "", 0)

add_pot(d, admin, player_id, date) ==
    IF ~admin THEN Unauthorized(d)
    ELSE IF ForeignKeyRaises(d, player_id) THEN Reply(d, 500, "IntegrityError", 0)
    ELSE Reply(InsertPotHistory(UpsertPot(d, player_id, date), player_id, date),
               200, "", 0)

remove_pot(d, admin, player_id, date) ==
    IF ~admin THEN Unauthorized(d)
    ELSE Reply(DecrementPot(d, player_id, date), 200, "", 0)

reset_pots(d, admin, date) ==
    IF ~admin THEN Unauthorized(d)
    ELSE Reply(DeletePotsOf(d, date), 200, "", 0)

delete_pot_history(d, admin, history_id) ==
    IF ~admin THEN Unauthorized(d)
    ELSE Reply(DeletePotHistoryEntry(d, history_id), 200, "", 0)

update_pot_historyAnyCount(d, admin, history_id, new_count) ==
    IF ~admin THEN Unauthorized(d)
    ELSE Reply(UpdatePotHistoryCount(d, history_id, new_count), 200, "", 0)

update_pot_history(d, admin, history_id, new_count) ==
    IF ~admin THEN Unauthorized(d)
    ELSE IF new_count < 1 THEN Reply(d, 400, "Pot count must be at least 1", 0)
    ELSE Reply(UpdatePotHistoryCount(d, history_id, new_count), 200, "", 0)

(* The reads.  None of them looks at the session. *)

get_statsEvenAsRest(d) ==
    LET total_players == Cardinality(DOMAIN d.players)
        winners == Cardinality({p \in DOMAIN d.players : d.players[p].base_total > 0})
        losers == Cardinality({p \in DOMAIN d.players : d.players[p].base_total < 0})
    IN Reply(d, 200, "",
             [total_players |-> total_players,
              total_transactions |-> Cardinality(d.history),
              total_points |-> SumBaseTotals(d, DOMAIN d.players),
              winners |-> winners,
              losers |-> losers,
              even |-> total_players - winners])

get_stats(d) ==
    LET total_players == Cardinality(DOMAIN d.players)
        total_transactions == Cardinality(d.history)
        total_points == SumBaseTotals(d, DOMAIN d.players)
        winners == Cardinality({p \in DOMAIN d.players : d.players[p].base_total > 0})
        losers == Cardinality({p \in DOMAIN d.players : d.players[p].base_total < 0})
    IN Reply(d, 200, "",
             [total_players |-> total_players,
              total_transactions |-> total_transactions,
              total_points |-> total_points,
              winners |-> winners,
              losers |-> losers,
              even |-> total_players - winners - losers])

(* points_to_dollars, in cents.  (points / 1000) * 5 is points / 2 cents;   *)
(* round(.., 2) gives the nearest cent.  An odd number of points lies on a  *)
(* half cent, and round() then follows the binary64 value of the product,   *)
(* which is above the half cent for the magnitudes of HalfCentUp (of the    *)
(* odd magnitudes up to 41, 999 and 1001) and below it for the others.      *)
HalfCentUp == {1, 5, 7, 13, 17, 19, 21, 27, 29, 33, 35, 39, 41, 999}

points_to_dollarsPerPoint(points) == points * 500

points_to_dollars(points) ==
    LET n == Abs(points)
        cents == IF n % 2 = 0 THEN n \div 2
                 ELSE IF n \in HalfCentUp THEN (n + 1) \div 2 ELSE (n - 1) \div 2
    IN IF points < 0 THEN -cents ELSE cents

FloorDivTowardZero(n, m) == IF n < 0 THEN -((-n) \div m) ELSE n \div m

\* Python's //: the quotient rounded toward minus infinity.
FloorDiv(n, m) == n \div m

get_player_detailsLossAsSize(d, player_id) ==
    IF player_id \notin DOMAIN d.players THEN Reply(d, 404, "Player not found", 0)
    ELSE LET history == HistoryOf(d, player_id)
             pot_history == {r \in d.pot_history : r.player_id = player_id}
             points == {h.points_added : h \in history}
             base_total == d.players[player_id].base_total
         IN Reply(d, 200, "",
                  [id |-> player_id,
                   name |-> d.players[player_id].name,
                   base_total |-> base_total,
                   status |-> IF base_total > 0 THEN "WON"
                              ELSE IF base_total < 0 THEN "LOST" ELSE "EVEN",
                   total_games |-> Cardinality(history),
                   total_wins |-> Cardinality({h \in history : h.points_added > 0}),
                   total_losses |-> Cardinality({h \in history : h.points_added < 0}),
                   biggest_win |-> Max(points \cup {0}),
                   biggest_loss |-> Max({-x : x \in points} \cup {0}),
                   total_pots_bought |-> SumPotCounts(pot_history),
                   pots_earned |-> FloorDiv(base_total, 1000)])

get_player_details(d, player_id) ==
    IF player_id \notin DOMAIN d.players THEN Reply(d, 404, "Player not found", 0)
    ELSE LET history == HistoryOf(d, player_id)
             pot_history == {r \in d.pot_history : r.player_id = player_id}
             points == {h.points_added : h \in history}
             base_total == d.players[player_id].base_total
         IN Reply(d, 200, "",
                  [id |-> player_id,
                   name |-> d.players[player_id].name,
                   base_total |-> base_total,
                   status |-> IF base_total > 0 THEN "WON"
                              ELSE IF base_total < 0 THEN "LOST" ELSE "EVEN",
                   total_games |-> Cardinality(history),
                   total_wins |-> Cardinality({h \in history : h.points_added > 0}),
                   total_losses |-> Cardinality({h \in history : h.points_added < 0}),
                   biggest_win |-> Max(points \cup {0}),
                   biggest_loss |-> -Max({-x : x \in points} \cup {0}),
                   total_pots_bought |-> SumPotCounts(pot_history),
                   pots_earned |-> FloorDiv(base_total, 1000)])

----------------------------------------------------------------------------
(* Requests served alone.  The response keeps the route, the status code   *)
(* and the error message of the JSON body.                                  *)

WithinBounds(d) ==
    /\ DOMAIN d.players \subseteq 1..MaxPlayerId
    /\ \A p \in DOMAIN d.players : Abs(d.players[p].base_total) <= MaxTotal
    /\ \A h \in d.history : h.id <= MaxHistId
    /\ \A h \in d.pot_history : h.id <= MaxPotHistId

Response(route, res) == [route |-> route, code |-> res.code, error |-> res.error]

NoResponse == [route |-> "", code |-> 0, error |-> ""]

Serve(route, res) ==
    /\ WithinBounds(res.db)
    /\ db' = res.db
    /\ response' = Response(route, res)
    /\ UNCHANGED <<is_postgres, today, handlers>>

AddPlayer(admin) ==
    \E name \in NameInputs : Serve("add_player", add_player(db, admin, name))

AddPoints(admin) ==
    \E player_id \in PlayerIds, points \in Points :
        Serve("add_points", add_points(db, admin, player_id, points))

DeletePlayer(admin) ==
    \E player_id \in PlayerIds :
        Serve("delete_player", delete_player(db, admin, player_id))

DeleteHistory(admin) ==
    \E history_id \in HistoryIds :
        Serve("delete_history_entry", delete_history_entry(db, admin, history_id))

ClearAllHistory(admin) ==
    Serve("clear_all_history", clear_all_history(db, admin))

AddPot(admin) ==
    \E player_id \in PlayerIds : Serve("add_pot", add_pot(db, admin, player_id, today))

(* The pot table: the pot routes served alone while the ledger rests, so    *)
(* that more pots can be bought.                                            *)
WithinPotBounds(d) ==
    /\ \A h \in d.pot_history : h.id <= MaxPotBuys
    /\ \A p \in d.pots : p.pot_count <= MaxPotBuys

ServeIf(within, route, res) ==
    /\ within
    /\ db' = res.db
    /\ response' = Response(route, res)
    /\ UNCHANGED <<is_postgres, today, handlers>>

CountInputs == (-1)..MaxCount

AddPotMany(admin) ==
    \E player_id \in PlayerIds :
        LET res == add_pot(db, admin, player_id, today)
        IN ServeIf(WithinPotBounds(res.db), "add_pot", res)

RemovePot(admin) ==
    \E player_id \in PlayerIds :
        ServeIf(TRUE, "remove_pot", remove_pot(db, admin, player_id, today))

ResetPots(admin) == ServeIf(TRUE, "reset_pots", reset_pots(db, admin, today))

PotHistoryIds == 1..(MaxPotBuys + 1)

DeletePotHistory(admin) ==
    \E history_id \in PotHistoryIds :
        ServeIf(TRUE, "delete_pot_history", delete_pot_history(db, admin, history_id))

UpdatePotHistory(admin) ==
    \E history_id \in PotHistoryIds, new_count \in CountInputs :
        ServeIf(TRUE, "update_pot_history",
                update_pot_history(db, admin, history_id, new_count))

(* A game night: points as they are entered at the table. *)
GamePoints == {-1500, -1000, -500, 500, 1000}

AddGamePoints(admin) ==
    \E player_id \in PlayerIds, points \in GamePoints :
        LET res == add_points(db, admin, player_id, points)
        IN ServeIf(\A h \in res.db.history : h.id <= MaxHistId, "add_points", res)

(* The reads: the response carries the JSON body. *)
Read(route, res) ==
    /\ response' = [route |-> route, code |-> res.code, error |-> res.error,
                    body |-> res.value]
    /\ UNCHANGED <<is_postgres, db, today, handlers>>

GetStats == Read("get_stats", get_stats(db))

GetPlayerDetails ==
    \E player_id \in PlayerIds :
        Read("get_player_details", get_player_details(db, player_id))

(* Two amounts of points converted for display. *)
DollarPoints ==
    ((-MaxCentPoints)..MaxCentPoints) \cup {-1001, -1000, -999, 999, 1000, 1001}

ConvertPoints ==
    /\ \E p \in DollarPoints, q \in DollarPoints :
         response' = [route |-> "points_to_dollars", code |-> 200, error |-> "",
                      body |-> [points |-> <<p, q>>,
                                dollars |-> <<points_to_dollars(p),
                                              points_to_dollars(q)>>]]
    /\ UNCHANGED <<is_postgres, db, today, handlers>>

(* A request served concurrently: it takes a free slot with its first      *)
(* statement and then advances one statement at a time (pc names the next   *)
(* statement of its handler).  A slot serves one request.                   *)

Handlers == 1..NumHandlers

NewHandler ==
    [pc |-> "new", route |-> "", player_id |-> 0, history_id |-> 0,
     points |-> 0, new_total |-> 0, code |-> 0]

Done(hd, code) == [hd EXCEPT !.pc = "done", !.code = code]

Step(h, hd, d) ==
    /\ handlers' = [handlers EXCEPT ![h] = hd]
    /\ db' = d
    /\ UNCHANGED <<is_postgres, today, response>>

(* add_points: SELECT base_total, UPDATE players, INSERT INTO history. *)
AddPointsSelect(h, admin) ==
    /\ handlers[h].pc = "new"
    /\ \E player_id \in PlayerIds, points \in Points :
        LET hd == [handlers[h] EXCEPT !.route = "add_points",
                                      !.player_id = player_id, !.points = points]
        IN IF ~admin THEN Step(h, Done(hd, 403), db)
           ELSE IF player_id \notin DOMAIN db.players THEN Step(h, Done(hd, 404), db)
           ELSE Step(h, [hd EXCEPT !.pc = "update",
                           !.new_total = db.players[player_id].base_total + points], db)

AddPointsUpdate(h) ==
    /\ handlers[h].pc = "update"
    /\ Step(h, [handlers[h] EXCEPT !.pc = "insert"],
            UpdateBaseTotal(db, handlers[h].player_id, handlers[h].new_total))

AddPointsInsert(h) ==
    /\ handlers[h].pc = "insert"
    /\ IF ForeignKeyRaises(db, handlers[h].player_id)
       \* the refused row has drawn its id from the sequence
       THEN Step(h, Done(handlers[h], 500), [db EXCEPT !.history_seq = @ + 1])
       ELSE Step(h, Done(handlers[h], 201),
                 InsertHistory(db, handlers[h].player_id, handlers[h].points,
                               handlers[h].new_total))

(* delete_history_entry: SELECT the entry, UPDATE players, DELETE the entry. *)
DeleteHistorySelect(h, admin) ==
    /\ handlers[h].pc = "new"
    /\ \E history_id \in HistoryIds :
        LET hd == [handlers[h] EXCEPT !.route = "delete_history_entry",
                                      !.history_id = history_id]
        IN IF ~admin THEN Step(h, Done(hd, 403), db)
           ELSE IF ~\E e \in db.history : e.id = history_id
           THEN Step(h, Done(hd, 404), db)
           ELSE LET history == CHOOSE e \in db.history : e.id = history_id
                IN Step(h, [hd EXCEPT !.pc = "reverse",
                                      !.player_id = history.player_id,
                                      !.points = history.points_added], db)

DeleteHistoryReverse(h) ==
    /\ handlers[h].pc = "reverse"
    /\ Step(h, [handlers[h] EXCEPT !.pc = "delete"],
            ReverseBaseTotal(db, handlers[h].player_id, handlers[h].points))

DeleteHistoryDelete(h) ==
    /\ handlers[h].pc = "delete"
    /\ Step(h, Done(handlers[h], 200), DeleteHistoryEntry(db, handlers[h].history_id))

(* add_pot: the upsert of today's counter, INSERT INTO pot_history.  Each    *)
(* statement reads the date when it runs.                                   *)
AddPotUpsert(h, admin) ==
    /\ handlers[h].pc = "new"
    /\ \E player_id \in PlayerIds :
        LET hd == [handlers[h] EXCEPT !.route = "add_pot", !.player_id = player_id]
        IN IF ~admin THEN Step(h, Done(hd, 403), db)
           ELSE IF ForeignKeyRaises(db, player_id) THEN Step(h, Done(hd, 500), db)
           ELSE Step(h, [hd EXCEPT !.pc = "pot_history"], UpsertPot(db, player_id, today))

AddPotInsertHistory(h) ==
    /\ handlers[h].pc = "pot_history"
    /\ IF ForeignKeyRaises(db, handlers[h].player_id)
       THEN Step(h, Done(handlers[h], 500), [db EXCEPT !.pot_history_seq = @ + 1])
       ELSE Step(h, Done(handlers[h], 200),
                 InsertPotHistory(db, handlers[h].player_id, today))

(* delete_player: DELETE the player's history, DELETE the player. *)
DeletePlayerHistory(h, admin) ==
    /\ handlers[h].pc = "new"
    /\ \E player_id \in PlayerIds :
        LET hd == [handlers[h] EXCEPT !.route = "delete_player",
                                      !.player_id = player_id]
        IN IF ~admin THEN Step(h, Done(hd, 403), db)
           ELSE Step(h, [hd EXCEPT !.pc = "delete_player"],
                     DeleteHistoryOfPlayer(db, player_id))

DeletePlayerDelete(h) ==
    /\ handlers[h].pc = "delete_player"
    /\ IF is_postgres /\ handlers[h].player_id \in DOMAIN db.players
                      /\ PlayerReferenced(db, handlers[h].player_id)
       THEN Step(h, Done(handlers[h], 500), db)
       ELSE Step(h, Done(handlers[h], 200), DeletePlayerRow(db, handlers[h].player_id))

(* get_stats: five SELECTs, each on the store as it is when it runs; the    *)
(* handler keeps what it has read so far.                                   *)
NoStats ==
    [total_players |-> 0, total_transactions |-> 0, total_points |-> 0,
     winners |-> 0, losers |-> 0, even |-> 0]

StatsHandler(pc, code, stats) ==
    [pc |-> pc, route |-> "get_stats", player_id |-> 0, history_id |-> 0,
     points |-> 0, new_total |-> 0, code |-> code, stats |-> stats]

GetStatsCountPlayers(h) ==
    /\ handlers[h].pc = "new"
    /\ Step(h, StatsHandler("total_transactions", 0,
                 [NoStats EXCEPT !.total_players = Cardinality(DOMAIN db.players)]),
            db)

GetStatsCountHistory(h) ==
    /\ handlers[h].pc = "total_transactions"
    /\ Step(h, StatsHandler("total_points", 0,
                 [handlers[h].stats EXCEPT
                     !.total_transactions = Cardinality(db.history)]),
            db)

GetStatsSumTotals(h) ==
    /\ handlers[h].pc = "total_points"
    /\ Step(h, StatsHandler("winners", 0,
                 [handlers[h].stats EXCEPT
                     !.total_points = SumBaseTotals(db, DOMAIN db.players)]),
            db)

GetStatsCountWinners(h) ==
    /\ handlers[h].pc = "winners"
    /\ Step(h, StatsHandler("losers", 0,
                 [handlers[h].stats EXCEPT !.winners =
                     Cardinality({p \in DOMAIN db.players :
                                    db.players[p].base_total > 0})]),
            db)

GetStatsCountLosers(h) ==
    /\ handlers[h].pc = "losers"
    /\ LET losers == Cardinality({p \in DOMAIN db.players :
                                    db.players[p].base_total < 0})
           stats == handlers[h].stats
       IN Step(h, StatsHandler("done", 200,
                    [stats EXCEPT !.losers = losers,
                                  !.even = stats.total_players - stats.winners - losers]),
               db)

(* execute_query re-raises what the driver raises (no connection, a locked  *)
(* database): the statement has no effect and the request ends with a 500.  *)
QueryFails(h) ==
    /\ handlers[h].pc \notin {"new", "done"}
    /\ Step(h, Done(handlers[h], 500), db)

(* Midnight. *)
Tick ==
    /\ today < MaxDay
    /\ today' = today + 1
    /\ UNCHANGED <<is_postgres, db, response, handlers>>

----------------------------------------------------------------------------
(* Specifications. *)

Init ==
    /\ is_postgres \in BOOLEAN
    /\ db = init_db
    /\ today = 1
    /\ response = NoResponse
    /\ handlers = [h \in Handlers |-> NewHandler]

(* The ledger and the pots under an admin session, one request at a time. *)
Next ==
    \/ AddPlayer(TRUE)
    \/ AddPoints(TRUE)
    \/ DeletePlayer(TRUE)
    \/ DeleteHistory(TRUE)
    \/ ClearAllHistory(TRUE)
    \/ AddPot(TRUE)

Spec == Init /\ [][Next]_vars

(* Players that are registered and only ever get points added. *)
NextAdd ==
    \/ AddPlayer(TRUE)
    \/ AddPoints(TRUE)

SpecAdd == Init /\ [][NextAdd]_vars

(* The registry: players come, buy pots and go. *)
NextRegistry ==
    \/ AddPlayer(TRUE)
    \/ DeletePlayer(TRUE)
    \/ AddPot(TRUE)

SpecRegistry == Init /\ [][NextRegistry]_vars

(* add_points requests served concurrently, no statement failing. *)
NextRace ==
    \E h \in Handlers :
        \/ AddPointsSelect(h, TRUE)
        \/ AddPointsUpdate(h)
        \/ AddPointsInsert(h)

SpecRace == Init /\ [][NextRace]_vars

(* add_points and delete_history_entry requests whose statements may fail. *)
NextFail ==
    \E h \in Handlers :
        \/ AddPointsSelect(h, TRUE)
        \/ AddPointsUpdate(h)
        \/ AddPointsInsert(h)
        \/ DeleteHistorySelect(h, TRUE)
        \/ DeleteHistoryReverse(h)
        \/ DeleteHistoryDelete(h)
        \/ QueryFails(h)

SpecFail == Init /\ [][NextFail]_vars

(* add_pot requests served concurrently, around midnight. *)
NextPotRace ==
    \/ \E h \in Handlers :
        \/ AddPotUpsert(h, TRUE)
        \/ AddPotInsertHistory(h)
    \/ Tick

SpecPotRace == Init /\ [][NextPotRace]_vars

(* The ledger of the players there are: entries are added and reversed. *)
NextLedger ==
    \/ AddPoints(TRUE)
    \/ DeleteHistory(TRUE)

SpecLedger == Init /\ [][NextLedger]_vars

(* Requests without the admin session, among a few with it, and reads. *)
NextGuest ==
    \/ AddPlayer(FALSE)
    \/ AddPoints(FALSE)
    \/ DeletePlayer(FALSE)
    \/ DeleteHistory(FALSE)
    \/ ClearAllHistory(FALSE)
    \/ AddPot(FALSE)
    \/ RemovePot(FALSE)
    \/ ResetPots(FALSE)
    \/ DeletePotHistory(FALSE)
    \/ UpdatePotHistory(FALSE)
    \/ AddPoints(TRUE)
    \/ AddPot(TRUE)
    \/ GetStats
    \/ GetPlayerDetails

SpecGuest == Init /\ [][NextGuest]_vars

(* The pot table over the days: pots bought, taken back, the counter reset. *)
NextPots ==
    \/ AddPotMany(TRUE)
    \/ RemovePot(TRUE)
    \/ ResetPots(TRUE)
    \/ Tick

SpecPots == Init /\ [][NextPots]_vars

(* The pot history being corrected. *)
NextPotHistory ==
    \/ AddPotMany(TRUE)
    \/ UpdatePotHistory(TRUE)
    \/ DeletePotHistory(TRUE)

SpecPotHistory == Init /\ [][NextPotHistory]_vars

(* The statistics of the registry. *)
NextStats ==
    \/ AddPlayer(TRUE)
    \/ AddPoints(TRUE)
    \/ DeletePlayer(TRUE)
    \/ GetStats

SpecStats == Init /\ [][NextStats]_vars

(* A game night and the details of its players. *)
NextGame ==
    \/ AddGamePoints(TRUE)
    \/ AddPotMany(TRUE)
    \/ UpdatePotHistory(TRUE)
    \/ GetPlayerDetails

SpecGame == Init /\ [][NextGame]_vars

(* Amounts of points shown in dollars. *)
NextDollars == ConvertPoints

SpecDollars == Init /\ [][NextDollars]_vars

(* Entries are added one request at a time; then delete_history_entry       *)
(* requests are served concurrently, no statement failing.                  *)
NextReverseRace ==
    \/ (\A h \in Handlers : handlers[h].pc = "new") /\ AddPoints(TRUE)
    \/ \E h \in Handlers :
        \/ DeleteHistorySelect(h, TRUE)
        \/ DeleteHistoryReverse(h)
        \/ DeleteHistoryDelete(h)

SpecReverseRace == Init /\ [][NextReverseRace]_vars

(* add_points and delete_player requests served concurrently. *)
NextDeleteRace ==
    \E h \in Handlers :
        \/ AddPointsSelect(h, TRUE)
        \/ AddPointsUpdate(h)
        \/ AddPointsInsert(h)
        \/ DeletePlayerHistory(h, TRUE)
        \/ DeletePlayerDelete(h)

SpecDeleteRace == Init /\ [][NextDeleteRace]_vars

(* add_pot requests served concurrently, whose second statement may fail. *)
NextPotFail ==
    \E h \in Handlers :
        \/ AddPotUpsert(h, TRUE)
        \/ AddPotInsertHistory(h)
        \/ QueryFails(h)

SpecPotFail == Init /\ [][NextPotFail]_vars

(* One get_stats request served while points are being added and entries   *)
(* reversed.                                                                *)
NextStatsRace ==
    \/ AddPoints(TRUE)
    \/ DeleteHistory(TRUE)
    \/ \E h \in {1} :
        \/ GetStatsCountPlayers(h)
        \/ GetStatsCountHistory(h)
        \/ GetStatsSumTotals(h)
        \/ GetStatsCountWinners(h)
        \/ GetStatsCountLosers(h)

SpecStatsRace == Init /\ [][NextStatsRace]_vars

----------------------------------------------------------------------------
(* The claims. *)

Players == DOMAIN db.players

Drift(d, p) == d.players[p].base_total - LedgerSum(d, p)

Served(route, code) == response.route = route /\ response.code = code

C2_AddChain ==
    \A p \in Players :
        LET H == HistoryOf(db, p)
        IN /\ db.players[p].base_total = SumPoints(H)
           /\ \A e \in H : e.total_after = SumPoints({x \in H : x.id <= e.id})
           /\ \A e \in H : (\A x \in H : x.id <= e.id)
                              => e.total_after = db.players[p].base_total

C2_Witness ==
    /\ Served("add_points", 201)
    /\ \E p \in Players :
         /\ Cardinality(HistoryOf(db, p)) >= 2
         /\ db.players[p].base_total # 0
         /\ \E e \in HistoryOf(db, p) : e.total_after # db.players[p].base_total

AllDone == \A h \in Handlers : handlers[h].pc = "done"

Succeeded(route, p) ==
    {h \in Handlers : /\ handlers[h].pc = "done"
                      /\ handlers[h].route = route
                      /\ handlers[h].code \in {200, 201}
                      /\ handlers[h].player_id = p}

RECURSIVE SumDeltas(_)
SumDeltas(hs) ==
    IF hs = {} THEN 0
    ELSE LET h == CHOOSE x \in hs : TRUE
         IN handlers[h].points + SumDeltas(hs \ {h})

(* C3: once concurrent add_points requests have all completed, a player's   *)
(* running_total has increased (from 0) by the sum of the deltas of the     *)
(* requests that succeeded for that player: no update is lost.              *)
C3_NoLostUpdate ==
    AllDone => \A p \in Players :
                  db.players[p].base_total = SumDeltas(Succeeded("add_points", p))

NoneInFlight == \A h \in Handlers : handlers[h].pc \in {"new", "done"}

(* C4: add_points and reverse_entry fully apply or fully fail: when no      *)
(* request is between two statements, no player's running_total differs     *)
(* from the sum of the player's ledger entries, also after a statement of a *)
(* handler failed.                                                          *)
C4_AllOrNothing ==
    NoneInFlight => \A p \in Players : db.players[p].base_total = LedgerSum(db, p)

PotCount(d, p, date) ==
    LET rows == {r \in d.pots : r.player_id = p /\ r.session_date = date}
    IN IF rows = {} THEN 0 ELSE (CHOOSE r \in rows : TRUE).pot_count

PotHistoryOf(d, p) == {r \in d.pot_history : r.player_id = p}

(* C5: when the add_pot requests issued concurrently on one day have all    *)
(* completed, each player's Pot Counter for that day is the number N of     *)
(* requests served for the player, and the player has exactly N Pot History *)
(* entries, each with pot_count = 1.                                        *)
C5_CounterIsN ==
    (AllDone /\ today = 1) =>
        \A p \in PlayerIds :
            LET N == Cardinality(Succeeded("add_pot", p))
            IN /\ PotCount(db, p, 1) = N
               /\ Cardinality({r \in db.pots : r.player_id = p}) <= 1
               /\ Cardinality(PotHistoryOf(db, p)) = N
               /\ \A r \in PotHistoryOf(db, p) : r.pot_count = 1 /\ r.session_date = 1

C5_Witness ==
    /\ AllDone /\ today = 1
    /\ \E p \in Players : Cardinality(Succeeded("add_pot", p)) >= 2 /\ PotCount(db, p, 1) >= 2

(* C6: a successful reverse_entry of entry e lowers the owner's             *)
(* running_total by e.points_added, removes e and nothing else, and leaves  *)
(* the other ledger entries (their total_after too), the other players and  *)
(* the pot tables as they were.                                             *)
C6_ReverseFrame ==
    [][Served("delete_history_entry", 200)' => \A history_id \in HistoryIds :
         LET res == delete_history_entry(db, TRUE, history_id)
         IN (res.code = 200 /\ db' = res.db)
            => \E e \in db.history :
                 /\ e.id = history_id
                 /\ e.player_id \in Players
                 /\ db'.history = db.history \ {e}
                 /\ db'.players = [db.players EXCEPT
                                     ![e.player_id].base_total = @ - e.points_added]
                 /\ db'.pots = db.pots
                 /\ db'.pot_history = db.pot_history]_vars

C6_Witness ==
    /\ Served("delete_history_entry", 200)
    /\ db.history # {} /\ db.pot_history # {}
    /\ Cardinality(Players) >= 2
    /\ \E p \in Players : \E e \in HistoryOf(db, p) :
         /\ db.players[p].base_total = LedgerSum(db, p)
         /\ e.total_after # db.players[p].base_total

(* The two requests of the round trip, served one right after the other.  *)
ReverseThenAdd(d, e) ==
    add_points(delete_history_entry(d, TRUE, e.id).db, TRUE, e.player_id, e.points_added)

ReverseThenReAdd ==
    \E e \in db.history : Serve("add_points", ReverseThenAdd(db, e))

NextRoundTrip == Next \/ ReverseThenReAdd

SpecRoundTrip == Init /\ [][NextRoundTrip]_vars

(* C7: reverse_entry(e) and then add_points of e.points_added to e's player *)
(* leave the player's running_total as it was before the reversal, T, and   *)
(* the entry that was appended has points_added = e.points_added and        *)
(* total_after = T.                                                         *)
C7_RoundTrip ==
    [][\A e \in db.history :
         LET res == ReverseThenAdd(db, e)
         IN db' = res.db
            => /\ res.code = 201
               /\ e.player_id \in Players
               /\ db'.players = db.players
               /\ res.value = db.players[e.player_id].base_total
               /\ \E n \in db'.history \ (db.history \ {e}) :
                    /\ db'.history = (db.history \ {e}) \cup {n}
                    /\ n.player_id = e.player_id
                    /\ n.points_added = e.points_added
                    /\ n.total_after = db.players[e.player_id].base_total]_vars

C7_Witness ==
    /\ Served("add_points", 201)
    /\ \E p \in Players : \E e \in HistoryOf(db, p) :
         /\ e.points_added # 0
         /\ e.total_after = db.players[p].base_total
         /\ db.players[p].base_total # LedgerSum(db, p)
         /\ \A x \in db.history : x.id <= e.id

(* C8: clear_all deletes every ledger entry and leaves the players, their   *)
(* running_totals, the Pot Counter and the Pot History as they were.        *)
C8_ClearFrame ==
    [][Served("clear_all_history", 200)'
         => /\ db'.history = {}
            /\ db'.players = db.players
            /\ db'.pots = db.pots
            /\ db'.pot_history = db.pot_history]_vars

C8_Witness ==
    /\ Served("clear_all_history", 200)
    /\ db.history = {} /\ db.pots # {} /\ db.pot_history # {}
    /\ Cardinality(Players) >= 2
    /\ \E p \in Players : db.players[p].base_total # 0

(* C9: a delete(id) that completes (status 200) removes the player and all  *)
(* ledger entries with that player_id and leaves the other players and      *)
(* their entries as they were; for an id that is not present it succeeds    *)
(* and changes nothing.                                                     *)
C9_DeleteCascade ==
    [][\A player_id \in PlayerIds :
         LET res == delete_player(db, TRUE, player_id)
         IN /\ player_id \notin Players => res.code = 200 /\ res.db = db
            /\ (Served("delete_player", 200)' /\ res.code = 200 /\ db' = res.db)
                 => /\ player_id \notin DOMAIN db'.players
                    /\ HistoryOf(db', player_id) = {}
                    /\ DOMAIN db'.players = Players \ {player_id}
                    /\ \A p \in DOMAIN db'.players : db'.players[p] = db.players[p]
                    /\ db'.history = {h \in db.history : h.player_id # player_id}]_vars

C9_Witness ==
    /\ Served("delete_player", 200)
    /\ Players # {}
    /\ \E p \in PlayerIds : p \notin Players /\ p < Max(Players)
    /\ db.history # {}

ValidName(name) ==
    /\ name # <<>>
    /\ name[1] \notin Whitespace
    /\ name[Len(name)] \notin Whitespace

C10_NamesValid ==
    /\ \A p \in Players : ValidName(db.players[p].name)
    /\ \A p, q \in Players : db.players[p].name = db.players[q].name => p = q

IsBlank(name) == \A i \in 1..Len(name) : name[i] \in Whitespace

(* C10: register fails with "Player already exists" when the trimmed name   *)
(* is a player's name (compared case-sensitively) and with "Player name     *)
(* required" when the name is empty or blank, both leaving the store as it  *)
(* was; so no two players share a name and no player's name is empty or     *)
(* starts or ends with a blank.                                             *)
C10_RegisterErrors ==
    /\ C10_NamesValid
    /\ [][/\ C10_NamesValid'
          /\ response'.route = "add_player" => \A name \in NameInputs :
              LET res == add_player(db, TRUE, name)
              IN (db' = res.db /\ response' = Response("add_player", res))
                 => /\ IsBlank(name)
                         => /\ response'.code = 400
                            /\ response'.error = "Player name required"
                            /\ db' = db
                    /\ (\E p \in Players : \E i, j \in 0..Len(name) :
                              /\ db.players[p].name = SubSeq(name, i + 1, j)
                              /\ IsBlank(SubSeq(name, 1, i))
                              /\ IsBlank(SubSeq(name, j + 1, Len(name))))
                         => /\ response'.code = 400
                            /\ response'.error = "Player already exists"
                            /\ db' = db]_vars

C10_Witness ==
    /\ Served("add_player", 400)
    /\ response.error = "Player already exists"
    /\ ~is_postgres
    /\ \E p, q \in Players :
         /\ db.players[p].name = <<"C","h","a","i","t","u">>
         /\ db.players[q].name = <<"c","h","a","i","t","u">>


(* C11: registering a non-empty name that is not yet registered, by an      *)
(* admin, succeeds on either backend: the response is 201, exactly one      *)
(* player is created, with that name and base_total 0 (status EVEN), and    *)
(* the other players and the history are unchanged.                         *)
C11_RegisterSucceeds ==
    [][response'.route = "add_player" => \A name_in \in NameInputs :
         LET res == add_player(db, TRUE, name_in)
             name == strip(name_in)
         IN (name # <<>> /\ ~NameTaken(db, name)
             /\ db' = res.db /\ response' = Response("add_player", res))
            => /\ response'.code = 201
               /\ \E p \in DOMAIN db'.players \ Players :
                    /\ DOMAIN db'.players = Players \cup {p}
                    /\ db'.players[p] = [name |-> name, base_total |-> 0]
               /\ \A p \in Players : db'.players[p] = db.players[p]
               /\ db'.history = db.history]_vars

C13_NoZeroEntry == \A h \in db.history : h.points_added # 0

Counter(d, p, date) ==
    LET rows == {r \in d.pots : r.player_id = p /\ r.session_date = date}
    IN IF rows = {} THEN 0 ELSE (CHOOSE r \in rows : TRUE).pot_count

Dates == 1..MaxDay

(* C15: reset_pots removes every pots row dated today, of all players, and  *)
(* leaves the rows of other dates and the whole pot_history unchanged; no   *)
(* add_pot, remove_pot or reset_pots removes or modifies a pot_history row. *)
C15_ResetFrame ==
    /\ [][Served("reset_pots", 200)'
            => /\ db'.pots = {r \in db.pots : r.session_date # today}
               /\ \A r \in db'.pots : r.session_date # today
               /\ db'.pot_history = db.pot_history]_vars
    /\ [][db.pot_history \subseteq db'.pot_history]_vars

C15_Witness ==
    /\ Served("reset_pots", 200)
    /\ \E r \in db.pots : r.session_date # today /\ r.pot_count > 0
    /\ \E r \in db.pot_history : r.session_date = today
    /\ \A r \in db.pots : r.session_date # today

C18_StatsCount ==
    LET stats == get_stats(db).value
        totals == [p \in Players |-> db.players[p].base_total]
    IN /\ Served("get_stats", 200) => response.body = stats
       /\ stats.total_players = Cardinality(Players)
       /\ stats.total_transactions = Cardinality(db.history)
       /\ stats.total_points = SumBaseTotals(db, Players)
       /\ (\A p \in Players : totals[p] = 0) => stats.total_points = 0
       /\ (\A p \in Players : totals[p] >= 0)
            => stats.total_points >= Cardinality({p \in Players : totals[p] > 0})
       /\ stats.winners = Cardinality({p \in Players : totals[p] > 0})
       /\ stats.losers = Cardinality({p \in Players : totals[p] < 0})
       /\ stats.even = stats.total_players - stats.winners - stats.losers
       /\ stats.even = Cardinality({p \in Players : totals[p] = 0})
       /\ Players = {} => stats = [total_players |-> 0, total_transactions |-> 0,
                                   total_points |-> 0, winners |-> 0,
                                   losers |-> 0, even |-> 0]

C18_Witness ==
    /\ Served("get_stats", 200)
    /\ response.body.winners = 1
    /\ response.body.losers = 1
    /\ response.body.even = 0
    /\ response.body.total_transactions = MaxHistId

(* The points of a player's history entries, as a bag would hold them. *)
PointsOf(d, p) == {<<h.id, h.points_added>> : h \in HistoryOf(d, p)}

(* C19: get_player_details reports total_games = the number of the player's *)
(* history entries, total_wins = the number with points_added > 0,          *)
(* total_losses = the number with points_added < 0, biggest_win = the       *)
(* largest positive points_added or 0, biggest_loss = the smallest negative *)
(* points_added or 0, and status by the sign of base_total; after 1000 and  *)
(* -1500 for a new player: 2 games, 1 win, 1 loss, 1000, -1500, -500, LOST. *)
C19_DetailStats ==
    /\ \A p \in Players :
         LET body == get_player_details(db, p).value
             wins == {e \in PointsOf(db, p) : e[2] > 0}
             losses == {e \in PointsOf(db, p) : e[2] < 0}
         IN /\ body.total_games = Cardinality(PointsOf(db, p))
            /\ body.total_wins = Cardinality(wins)
            /\ body.total_losses = Cardinality(losses)
            /\ IF wins = {} THEN body.biggest_win = 0
               ELSE /\ \E e \in wins : body.biggest_win = e[2]
                    /\ \A e \in wins : body.biggest_win >= e[2]
            /\ IF losses = {} THEN body.biggest_loss = 0
               ELSE /\ \E e \in losses : body.biggest_loss = e[2]
                    /\ \A e \in losses : body.biggest_loss <= e[2]
            /\ body.status = CASE db.players[p].base_total > 0 -> "WON"
                               [] db.players[p].base_total < 0 -> "LOST"
                               [] OTHER -> "EVEN"
            /\ (\E e1, e2 \in db.history :
                   /\ HistoryOf(db, p) = {e1, e2}
                   /\ e1.id < e2.id
                   /\ e1.points_added = 1000
                   /\ e2.points_added = -1500)
               => /\ body.total_games = 2
                  /\ body.total_wins = 1
                  /\ body.total_losses = 1
                  /\ body.biggest_win = 1000
                  /\ body.biggest_loss = -1500
                  /\ body.base_total = -500
                  /\ body.status = "LOST"
    /\ Served("get_player_details", 200)
         => response.body = get_player_details(db, response.body.id).value

C19_Witness ==
    /\ Served("get_player_details", 200)
    /\ \E e1, e2 \in db.history :
         /\ HistoryOf(db, response.body.id) = {e1, e2}
         /\ e1.id < e2.id
         /\ e1.points_added = 1000
         /\ e2.points_added = -1500
    /\ response.body.biggest_loss = -1500
    /\ response.body.status = "LOST"

(* The counts of a player's pot_history entries, summed entry id by id. *)
RECURSIVE SumCountsUpTo(_, _, _)
SumCountsUpTo(d, p, n) ==
    IF n = 0 THEN 0
    ELSE LET rows == {r \in d.pot_history : r.id = n /\ r.player_id = p}
         IN (IF rows = {} THEN 0 ELSE (CHOOSE r \in rows : TRUE).pot_count)
            + SumCountsUpTo(d, p, n - 1)

(* C20: get_player_details reports pots_earned = base_total / 1000 rounded  *)
(* toward minus infinity: 1000 * pots_earned <= base_total                  *)
(* < 1000 * (pots_earned + 1), so -500 gives -1 and -1000 gives -1; and     *)
(* total_pots_bought = the sum of pot_count over the player's pot_history.  *)
C20_PotsEarnedFloor ==
    /\ \A p \in Players :
         LET body == get_player_details(db, p).value
             T == db.players[p].base_total
         IN /\ 1000 * body.pots_earned <= T
            /\ T < 1000 * (body.pots_earned + 1)
            /\ T = -500 => body.pots_earned = -1
            /\ T = -1000 => body.pots_earned = -1
            /\ body.total_pots_bought
                 = SumCountsUpTo(db, p, Max({r.id : r \in db.pot_history} \cup {0}))
    /\ Served("get_player_details", 200)
         => /\ response.body.pots_earned
                 = get_player_details(db, response.body.id).value.pots_earned
            /\ response.body.total_pots_bought
                 = get_player_details(db, response.body.id).value.total_pots_bought

C20_Witness ==
    /\ Served("get_player_details", 200)
    /\ response.body.base_total = -500
    /\ response.body.pots_earned = -1
    /\ response.body.total_pots_bought > Cardinality(PotHistoryOf(db, response.body.id))
    /\ Cardinality(PotHistoryOf(db, response.body.id)) > 1


(* C21: points_to_dollars is monotonic non-decreasing (p <= q implies       *)
(* points_to_dollars(p) <= points_to_dollars(q)), gives the nearest cent of *)
(* points * 5 / 1000, and gives 5.00 for 1000, -5.00 for -1000 and 0.00     *)
(* for 0 (amounts in cents).                                                *)
C21_DollarsMonotonic ==
    Served("points_to_dollars", 200) =>
        LET p == response.body.points[1]
            q == response.body.points[2]
            dp == response.body.dollars[1]
            dq == response.body.dollars[2]
        IN /\ dp = points_to_dollars(p) /\ dq = points_to_dollars(q)
           /\ p <= q => dp <= dq
           /\ Abs(2 * dp - p) <= 1
           /\ p = 1000 => dp = 500
           /\ p = -1000 => dp = -500
           /\ p = 0 => dp = 0

C21_Witness ==
    /\ Served("points_to_dollars", 200)
    /\ response.body.points = <<-1000, 1000>>
    /\ response.body.dollars = <<-500, 500>>


(* C22: an entry is reversed at most once: when two delete_history_entry    *)
(* requests for the same entry id are served concurrently, only one of them *)
(* succeeds and the player's base_total is decreased by the entry's         *)
(* points_added once, so that it is again the sum of the player's entries.  *)
C22_ReversedOnce ==
    AllDone =>
        /\ \A h1, h2 \in Handlers :
             (h1 # h2 /\ handlers[h1].history_id = handlers[h2].history_id)
             => ~(handlers[h1].code = 200 /\ handlers[h2].code = 200)
        /\ \A p \in Players : Drift(db, p) = 0


(* C23: every history entry belongs to a player that exists, also when      *)
(* add_points and delete_player for the same player are served              *)
(* concurrently.                                                            *)
C23_NoOrphanEntry == \A e \in db.history : e.player_id \in Players


(* C24: the two writes of add_pot are applied together or not at all: in no *)
(* state of the store, between requests or after a failed statement, has    *)
(* today's counter of a player been incremented without the pot_history     *)
(* entry being appended, so the counter of a player and date is the number  *)
(* of the pot_history entries of that player and date.                      *)
C24_PotWritesTogether ==
    \A p \in PlayerIds, date \in Dates :
        PotCount(db, p, date)
            = Cardinality({r \in PotHistoryOf(db, p) : r.session_date = date})


(* C25: the values get_stats returns while other requests are served        *)
(* between its reads satisfy even >= 0 and winners + losers + even          *)
(* = total_players, with no more winners and losers than players.           *)
C25_StatsSnapshot ==
    \A h \in Handlers :
        (handlers[h].route = "get_stats" /\ handlers[h].pc = "done")
        => LET stats == handlers[h].stats
           IN /\ stats.even >= 0
              /\ stats.winners + stats.losers + stats.even = stats.total_players


(* C26: delete_player of a registered player succeeds whether or not the    *)
(* player has pot rows; it removes the player and the player's history      *)
(* entries only: pots and pot_history, the player's own rows included, are  *)
(* unchanged.                                                               *)
C26_DeleteKeepsPots ==
    [][response'.route = "delete_player" => \A player_id \in Players :
         LET res == delete_player(db, TRUE, player_id)
         IN (db' = res.db /\ response' = Response("delete_player", res))
            => /\ response'.code = 200
               /\ DOMAIN db'.players = Players \ {player_id}
               /\ db'.history = {e \in db.history : e.player_id # player_id}
               /\ db'.pots = db.pots
               /\ db'.pot_history = db.pot_history]_vars

====
